---- MODULE Spec2Model ----
(***************************************************************************)
(* A model of econo (src/econo/market.py, src/econo/unit.py and the run    *)
(* loop of src/econo/cli.py): the market's price queries and mutations,    *)
(* the profitability evaluator price_op, the decision policy choose_op,    *)
(* perform_op, the unit-id sequencer, spawn_unit and the stepper step_time.*)
(*                                                                         *)
(* Numbers.  The program computes in Python 2 floats.  The model draws     *)
(* every currency amount, price parameter and interest rate from the       *)
(* integers, on which +, - and * are exact; a quotient (profit / op.time,  *)
(* total_balance / (total_age + 1)) is kept as an exact fraction           *)
(* [n |-> numerator, d |-> denominator > 0] and compared by cross          *)
(* multiplication.                                                         *)
(*                                                                         *)
(* Exceptions.  A Python call either returns or raises.  An operator that  *)
(* models a function yields [exc |-> "none", ...] when the function        *)
(* returns and [exc |-> <the exception's class>, ...] when it raises; the  *)
(* caller's model propagates it as Python does (no function of the         *)
(* repository catches an exception inside the simulation).                 *)
(***************************************************************************)
EXTENDS Integers, Sequences, FiniteSets, TLC

VARIABLES
    sys,        \* the snapshot's `system` section: t, interest_rate, min_balance, ...
    market,     \* resource name -> [type, initial, delta, rate]
    careers,    \* career name -> [ops, stats]
    units,      \* unit name -> unit state
    ids,        \* NEXT_UNIT_ID of unit.py: career -> last number handed out
    keyorder,   \* careers.keys(): the iteration order of the careers dictionary
    exc,        \* "none", or the exception that ended the run
    call        \* history of the most recent call: what was called, and what it did

vars == <<sys, market, careers, units, ids, keyorder, exc, call>>

-----------------------------------------------------------------------------
(* Generic helpers. *)

Max2(a, b) == IF a >= b THEN a ELSE b

RECURSIVE Pow(_, _)
\* b ** e, as in (1.0 + rate) ** op.time and rate ** delta: a product for
\* e >= 0 and the quotient 1 / b ** -e for e < 0.
Pow(b, e) ==
    IF e = 0 THEN 1
    ELSE IF e > 0 THEN b * Pow(b, e - 1)
    ELSE [n |-> 1, d |-> Pow(b, -e)]

\* Fractions n/d with d > 0.
Frac(n, d) == [n |-> n, d |-> d]
FracGt(a, b) == a.n * b.d > b.n * a.d
FracEq(a, b) == a.n * b.d = b.n * a.d

\* d[k] = v on a Python dictionary d (adds the key or replaces its value).
DictSet(d, k, v) == [x \in (DOMAIN d) \cup {k} |-> IF x = k THEN v ELSE d[x]]
\* d.pop(k), k present.
DictPop(d, k) == [x \in (DOMAIN d) \ {k} |-> d[x]]

Raise(e) == [exc |-> e, val |-> 0]
Return(v) == [exc |-> "none", val |-> v]

-----------------------------------------------------------------------------
(* src/econo/market.py *)

\* Whether the name `res` is bound where bid_at (line 23) and ask_at (line 58)
\* read it.  Both functions bind the market record to `rec` (lines 22, 57) and
\* then read res['type'], res['initial'], res['delta'], res['rate']; `res` is
\* assigned nowhere in the function or the module and is no builtin, so the
\* read raises NameError on every call that passes the two assertions.
res_is_bound == FALSE

\* One iteration's price of the loops of ask_at (line 65, 67) and bid_at
\* (line 30, 32, called with d = delta - 1).  parse_market admits only the
\* types "linear" and "exponential" (line 131), so the loops' third branch
\* (assert False) is never taken.
unit_price(rec, d) ==
    IF rec.type = "linear" THEN Max2(0, rec.initial + d * rec.rate)
    ELSE rec.initial * Pow(rec.rate, d)

RECURSIVE ask_loop(_, _, _)
\* for step in xrange(qty): price += <price at delta>; delta += 1
ask_loop(rec, delta, qty) ==
    IF qty <= 0 THEN 0
    ELSE unit_price(rec, delta) + ask_loop(rec, delta + 1, qty - 1)

RECURSIVE bid_loop(_, _, _)
\* for step in xrange(qty): price += <price at delta - 1>; delta -= 1
bid_loop(rec, delta, qty) ==
    IF qty <= 0 THEN 0
    ELSE unit_price(rec, delta - 1) + bid_loop(rec, delta - 1, qty - 1)

bid_at(mkt, resource, qty) ==
    IF resource \notin DOMAIN mkt THEN Raise("AssertionError")
    ELSE IF qty < 0 THEN Raise("AssertionError")
    ELSE IF ~res_is_bound THEN Raise("NameError")
    ELSE Return(bid_loop(mkt[resource], mkt[resource].delta, qty))

\* A sell that counted one unit whatever the quantity.
sell_one(mkt, resource, qty) ==
    IF resource \notin DOMAIN mkt THEN Raise("AssertionError")
    ELSE IF qty < 0 THEN Raise("AssertionError")
    ELSE Return([mkt EXCEPT ![resource].delta = @ - 1])

sell(mkt, resource, qty) ==
    IF resource \notin DOMAIN mkt THEN Raise("AssertionError")
    ELSE IF qty < 0 THEN Raise("AssertionError")
    ELSE Return([mkt EXCEPT ![resource].delta = @ - qty])

ask_at(mkt, resource, qty) ==
    IF resource \notin DOMAIN mkt THEN Raise("AssertionError")
    ELSE IF qty < 0 THEN Raise("AssertionError")
    ELSE IF ~res_is_bound THEN Raise("NameError")
    ELSE Return(ask_loop(mkt[resource], mkt[resource].delta, qty))

\* A buy without the second assertion: a negative quantity is bought.
buy_any_qty(mkt, resource, qty) ==
    IF resource \notin DOMAIN mkt THEN Raise("AssertionError")
    ELSE Return([mkt EXCEPT ![resource].delta = @ + qty])

buy(mkt, resource, qty) ==
    IF resource \notin DOMAIN mkt THEN Raise("AssertionError")
    ELSE IF qty < 0 THEN Raise("AssertionError")
    ELSE Return([mkt EXCEPT ![resource].delta = @ + qty])

RECURSIVE sum_ask(_, _, _)
\* for resource, count in op.costs.iteritems(): cost += ask_at(market, resource, qty=count)
sum_ask(mkt, costs, todo) ==
    IF todo = {} THEN Return(0)
    ELSE LET r == CHOOSE x \in todo : TRUE
             a == ask_at(mkt, r, costs[r])
         IN  IF a.exc # "none" THEN a
             ELSE LET rest == sum_ask(mkt, costs, todo \ {r})
                  IN  IF rest.exc # "none" THEN rest
                      ELSE Return(a.val + rest.val)

RECURSIVE sum_bid(_, _, _)
\* for resource, count in op.products.iteritems(): earnings += bid_at(market, resource, qty=count)
sum_bid(mkt, products, todo) ==
    IF todo = {} THEN Return(0)
    ELSE LET r == CHOOSE x \in todo : TRUE
             b == bid_at(mkt, r, products[r])
         IN  IF b.exc # "none" THEN b
             ELSE LET rest == sum_bid(mkt, products, todo \ {r})
                  IN  IF rest.exc # "none" THEN rest
                      ELSE Return(b.val + rest.val)

\* cost after the loan of lines 95-98: the shortfall, compounded over op.time,
\* replaces the shortfall.
financed(cost, rate, balance, time) ==
    IF cost > balance
    THEN cost + (Max2(0, cost - balance) * Pow(1 + rate, time)) - (cost - balance)
    ELSE cost

\* Returns (profit / op.time, profit, balance - cost); the quotient raises
\* ZeroDivisionError for op.time = 0 (profit is a float).
price_op(mkt, op, rate, balance) ==
    LET c == sum_ask(mkt, op.costs, DOMAIN op.costs)
    IN  IF c.exc # "none" THEN c
        ELSE LET cost == financed(c.val, rate, balance, op.time)
                 e == sum_bid(mkt, op.products, DOMAIN op.products)
             IN  IF e.exc # "none" THEN e
                 ELSE IF op.time = 0 THEN Raise("ZeroDivisionError")
                 ELSE Return([profit_rate |-> Frac(e.val - cost, op.time),
                              profit |-> e.val - cost,
                              low_balance |-> balance - cost])

-----------------------------------------------------------------------------
(* src/econo/unit.py: the decision policy and the unit-id sequencer *)

\* Python's None, where choose_op returns no operation.
None == [name |-> "None", costs |-> <<>>, products |-> <<>>, time |-> 0]

\* The second `continue` test alone: a choose_op that did not look at the
\* lowest balance would keep an operation by this.
eligible_by_time(low_balance, min_balance, time, max_time) == ~(time > max_time)

\* The two `continue` tests of choose_op's loop, negated: the operation is kept
\* when neither discards it.
eligible(low_balance, min_balance, time, max_time) ==
    ~(low_balance < min_balance) /\ ~(time > max_time)

\* The no-op profit of lines 35-38.
noop_profit(rate, balance) == IF balance < 0 THEN -((-balance) * rate) ELSE 0

\* The loop body's last test: the operation replaces the best so far when it
\* is kept and its rate is strictly greater.
better(best, op, priced, min_balance, max_time) ==
    IF eligible(priced.low_balance, min_balance, op.time, max_time)
       /\ FracGt(priced.profit_rate, best.rate)
    THEN [op |-> op, profit |-> priced.profit, rate |-> priced.profit_rate]
    ELSE best

RECURSIVE choose_loop(_, _, _, _, _, _, _, _)
RECURSIVE choose_priced(_, _, _, _, _, _, _, _, _)
\* for op in ops: ... ; best = (best_op, best_profit, best_rate)
choose_loop(mkt, ops, i, rate, balance, min_balance, max_time, best) ==
    IF i > Len(ops) THEN Return(best)
    ELSE choose_priced(mkt, ops, i, rate, balance, min_balance, max_time, best,
                       price_op(mkt, ops[i], rate, balance))

\* The loop's body once price_op has returned p or raised.
choose_priced(mkt, ops, i, rate, balance, min_balance, max_time, best, p) ==
    IF p.exc # "none" THEN p
    ELSE choose_loop(mkt, ops, i + 1, rate, balance, min_balance, max_time,
                     better(best, ops[i], p.val, min_balance, max_time))

choose_op(mkt, ops, rate, balance, min_balance, max_time) ==
    choose_loop(mkt, ops, 1, rate, balance, min_balance, max_time,
                [op |-> None, profit |-> noop_profit(rate, balance),
                 rate |-> Frac(noop_profit(rate, balance), 1)])

RECURSIVE buy_all(_, _, _)
\* for resource, count in op.costs.iteritems(): buy(market, resource, qty=count)
buy_all(mkt, costs, todo) ==
    IF todo = {} THEN [exc |-> "none", market |-> mkt]
    ELSE LET r == CHOOSE x \in todo : TRUE
             b == buy(mkt, r, costs[r])
         IN  IF b.exc # "none" THEN [exc |-> b.exc, market |-> mkt]
             ELSE buy_all(b.val, costs, todo \ {r})

RECURSIVE sell_all(_, _, _)
\* for resource, count in op.products.iteritems(): sell(market, resource, qty=count)
sell_all(mkt, products, todo) ==
    IF todo = {} THEN [exc |-> "none", market |-> mkt]
    ELSE LET r == CHOOSE x \in todo : TRUE
             b == sell(mkt, r, products[r])
         IN  IF b.exc # "none" THEN [exc |-> b.exc, market |-> mkt]
             ELSE sell_all(b.val, products, todo \ {r})

\* A perform_op that stopped after the balance, as it does for None, whatever
\* the operation.
perform_noop(mkt, unit_state, op, profit) ==
    [exc |-> "none", market |-> mkt, unit |-> [unit_state EXCEPT !.balance = @ + profit]]

\* The market and the unit state after perform_op (both are updated in place,
\* so what was done before an exception stays done).
perform_op(mkt, unit_state, op, profit) ==
    LET u1 == [unit_state EXCEPT !.balance = @ + profit]
    IN  IF op = None THEN [exc |-> "none", market |-> mkt, unit |-> u1]
        ELSE LET b == buy_all(mkt, op.costs, DOMAIN op.costs)
             IN  IF b.exc # "none" THEN [exc |-> b.exc, market |-> b.market, unit |-> u1]
                 ELSE LET sl == sell_all(b.market, op.products, DOMAIN op.products)
                      IN  IF sl.exc # "none"
                          THEN [exc |-> sl.exc, market |-> sl.market, unit |-> u1]
                          ELSE [exc |-> "none", market |-> sl.market,
                                unit |-> [u1 EXCEPT !.busy = @ + op.time]]

\* '%04d' % n for n >= 0: decimal digits, padded with zeros to four characters.
Fmt04d(n) ==
    LET str == ToString(n)
    IN  IF Len(str) >= 4 THEN str
        ELSE IF Len(str) = 3 THEN "0" \o str
        ELSE IF Len(str) = 2 THEN "00" \o str
        ELSE "000" \o str

\* NEXT_UNIT_ID is a defaultdict(lambda: 0): a career it does not hold reads 0.
next_unit_id(tbl, career) == IF career \in DOMAIN tbl THEN tbl[career] ELSE 0

\* NEXT_UNIT_ID[career] += 1; name = '%s_%04d' % (career, NEXT_UNIT_ID[career])
new_name(tbl, career) ==
    [ids |-> DictSet(tbl, career, next_unit_id(tbl, career) + 1),
     name |-> career \o "_" \o Fmt04d(next_unit_id(tbl, career) + 1)]

\* careers.keys()[0]: the career a spawn_unit that did not look at the stats
\* would pick.
first_career(crs, keys) == keys[1]

\* max(careers.keys(), key=avg_earnings): the first key, in the dictionary's
\* iteration order, that no key exceeds.
best_career(crs, keys) ==
    keys[CHOOSE i \in 1..Len(keys) :
            /\ \A j \in 1..Len(keys) :
                  ~FracGt(crs[keys[j]].stats.avg_earnings, crs[keys[i]].stats.avg_earnings)
            /\ \A j \in 1..(i - 1) :
                  FracGt(crs[keys[i]].stats.avg_earnings, crs[keys[j]].stats.avg_earnings)]

\* units[name] = dict(age=0, busy=0, career=career, balance=0, name=name,
\* spawn_phase=randint(0, spawn_every - 1), eat_phase=randint(0, eat_every - 1));
\* draw holds the two numbers randint returns.
spawn_unit(crs, keys, us, tbl, draw) ==
    LET career == best_career(crs, keys)
        nn == new_name(tbl, career)
    IN  [units |-> DictSet(us, nn.name,
                      [age |-> 0, busy |-> 0, career |-> career, balance |-> 0,
                       name |-> nn.name, spawn_phase |-> draw.spawn_phase,
                       eat_phase |-> draw.eat_phase]),
         ids |-> nn.ids,
         name |-> nn.name]

\* parse_unit_ids: a dictionary's entries overwrite the table's; anything else
\* (the section is absent: None) leaves the table as it is.
parse_unit_ids(tbl, config_unit_ids) ==
    [c \in (DOMAIN tbl) \cup (DOMAIN config_unit_ids) |->
        IF c \in DOMAIN config_unit_ids THEN config_unit_ids[c] ELSE tbl[c]]

-----------------------------------------------------------------------------
(* src/econo/unit.py: step_time *)

(* The state of one step_time call while it runs.  unit_list holds, for each  *)
(* key of the dictionary at the start, the very dictionary object that is the *)
(* unit's state: objs[key].  units[key] is that same object until the key is  *)
(* popped or a spawn stores a new dictionary under it; `same` is the set of   *)
(* keys for which it still is, so that an update of the object shows in units *)
(* exactly for them.  log is the history of the call: for each unit taken     *)
(* from unit_list, what the call's state was before it and after each of its  *)
(* four parts that completed, and when its turn ended.                        *)

\* unit_state[...] = ...: the object changes, and units with it where it holds the object
SetObj(S, k, u) ==
    [S EXCEPT !.objs[k] = u,
              !.units = IF k \in S.same THEN [@ EXCEPT ![k] = u] ELSE @]

\* units.pop(key)
PopUnit(S, k) ==
    IF k \in DOMAIN S.units
    THEN [S EXCEPT !.units = DictPop(@, k), !.same = @ \ {k}]
    ELSE [S EXCEPT !.exc = "KeyError"]

\* Lines 113-121: eat if necessary.
eat_step(S, k, P) ==
    LET u == S.objs[k]
    IN  IF (u.age % P.eat_every) # u.eat_phase THEN S
        ELSE LET a == ask_at(S.market, "food", 1)
             IN  IF a.exc # "none" THEN [S EXCEPT !.exc = a.exc]
                 ELSE IF (u.balance - a.val) < P.min_balance THEN PopUnit(S, k)
                 ELSE LET S1 == SetObj(S, k, [u EXCEPT !.balance = @ - a.val])
                          b == buy(S1.market, "food", 1)
                      IN  IF b.exc # "none" THEN [S1 EXCEPT !.exc = b.exc]
                          ELSE [S1 EXCEPT !.market = b.val]

\* Lines 123-132: spawn if appropriate and able.
spawn_step(S, k, P, crs, keys, draw) ==
    LET u == S.objs[k]
    IN  IF (u.age % P.spawn_every) # u.spawn_phase THEN S
        ELSE LET a == ask_at(S.market, "babykits", 1)
             IN  IF a.exc # "none" THEN [S EXCEPT !.exc = a.exc]
                 ELSE IF (u.balance - a.val) < P.min_balance THEN S
                 ELSE LET S1 == SetObj(S, k, [u EXCEPT !.balance = @ - a.val])
                          b == buy(S1.market, "babykits", 1)
                      IN  IF b.exc # "none" THEN [S1 EXCEPT !.exc = b.exc]
                          ELSE LET sp == spawn_unit(crs, keys, S1.units, S1.ids, draw)
                               IN  [S1 EXCEPT !.market = b.val,
                                              !.units = sp.units,
                                              !.ids = sp.ids,
                                              !.same = @ \ {sp.name},
                                              !.drew = @ \cup {k}]

\* Line 141 once perform_op has updated the market and the unit state.
act_performed(S, k, r) ==
    [SetObj(S, k, r.unit) EXCEPT !.market = r.market, !.exc = r.exc]

\* Lines 139-141 once choose_op has returned ch or raised.
act_chosen(S, k, ch) ==
    IF ch.exc # "none" THEN [S EXCEPT !.exc = ch.exc]
    ELSE act_performed(S, k, perform_op(S.market, S.objs[k], ch.val.op, ch.val.profit))

\* Lines 134-143: choose and perform an operation, or wait.
act_step(S, k, P, crs) ==
    IF S.objs[k].busy = 0
    THEN act_chosen(S, k, choose_op(S.market, crs[S.objs[k].career].ops,
                                    P.interest_rate, S.objs[k].balance,
                                    P.min_balance, P.max_age - S.objs[k].age))
    ELSE SetObj(S, k, [S.objs[k] EXCEPT !.busy = @ - 1])

\* Lines 145-150: age the unit.
age_step(S, k, P) ==
    LET S1 == SetObj(S, k, [S.objs[k] EXCEPT !.age = @ + 1])
    IN  IF S1.objs[k].age >= P.max_age /\ k \in DOMAIN S1.units
        THEN PopUnit(S1, k)
        ELSE S1

View(S, k) == [u |-> S.objs[k], market |-> S.market, units |-> S.units, ids |-> S.ids]

\* The history of one unit's turn: the state before it (S0), after each part
\* that completed (v[2] after eating, v[3] after spawning, v[4] after acting,
\* v[5] after ageing), and when the turn ended, completed or not.
logged(S0, S1, S2, S3, S4, k) ==
    [S4 EXCEPT !.log = Append(@,
        [key |-> k,
         end |-> View(S4, k),
         v |-> <<View(S0, k)>>
               \o (IF S1.exc = "none" THEN <<View(S1, k)>> ELSE <<>>)
               \o (IF S2.exc = "none" THEN <<View(S2, k)>> ELSE <<>>)
               \o (IF S3.exc = "none" THEN <<View(S3, k)>> ELSE <<>>)
               \o (IF S4.exc = "none" THEN <<View(S4, k)>> ELSE <<>>)])]

\* The parts of the loop's body, each run when the one before raised nothing.
then_age(S0, S1, S2, S3, k, P) ==
    logged(S0, S1, S2, S3, IF S3.exc = "none" THEN age_step(S3, k, P) ELSE S3, k)

then_act(S0, S1, S2, k, P, crs) ==
    then_age(S0, S1, S2, IF S2.exc = "none" THEN act_step(S2, k, P, crs) ELSE S2, k, P)

then_spawn(S0, S1, k, P, crs, keys, draw) ==
    then_act(S0, S1, IF S1.exc = "none" THEN spawn_step(S1, k, P, crs, keys, draw) ELSE S1,
             k, P, crs)

\* The body of the loop of line 112 for one (key, unit_state) of unit_list.
process_unit(S, k, P, crs, keys, draw) ==
    then_spawn(S, eat_step(S, k, P), k, P, crs, keys, draw)

\* The draw of a unit that calls randint at no time.
NoDraw == [spawn_phase |-> 0, eat_phase |-> 0]

RECURSIVE run_units(_, _, _, _, _, _, _)
\* for key, unit_state in unit_list: ...
run_units(S, unit_list, i, P, crs, keys, rnd) ==
    IF i > Len(unit_list) \/ S.exc # "none" THEN S
    ELSE run_units(process_unit(S, unit_list[i], P, crs, keys,
                                IF unit_list[i] \in DOMAIN rnd THEN rnd[unit_list[i]]
                                ELSE NoDraw),
                   unit_list, i + 1, P, crs, keys, rnd)

RECURSIVE sum_list(_, _, _, _, _)
\* the sum, over the entries of unit_list whose unit_state is of `career`, of
\* field f of the unit_state (f = "one" counts them)
sum_list(unit_list, objs, i, career, f) ==
    IF i > Len(unit_list) THEN 0
    ELSE (IF objs[unit_list[i]].career # career THEN 0
          ELSE IF f = "balance" THEN objs[unit_list[i]].balance
          ELSE IF f = "age" THEN objs[unit_list[i]].age
          ELSE 1)
         + sum_list(unit_list, objs, i + 1, career, f)

\* Lines 152-165: the aggregate stats, summed over unit_list.
compute_stats(crs, unit_list, objs) ==
    [c \in DOMAIN crs |->
        [crs[c] EXCEPT !.stats =
            [total_balance |-> sum_list(unit_list, objs, 1, c, "balance"),
             total_age     |-> sum_list(unit_list, objs, 1, c, "age"),
             population    |-> sum_list(unit_list, objs, 1, c, "one"),
             avg_earnings  |-> Frac(sum_list(unit_list, objs, 1, c, "balance"),
                                    sum_list(unit_list, objs, 1, c, "age") + 1)]]]

RECURSIVE ascending(_, _)
\* The orders of the keys `todo` that are ascending in balance: a key of least
\* balance, then an ascending order of the others.
ascending(us, todo) ==
    IF todo = {} THEN {<<>>}
    ELSE UNION {{<<k>> \o l : l \in ascending(us, todo \ {k})} :
                   k \in {x \in todo : \A y \in todo : us[x].balance <= us[y].balance}}

\* unit_list.sort(key=balance): a stable sort of units.items(), whose order is
\* the dictionary's; any order of the keys that is ascending in balance can
\* result, units of equal balance staying in the dictionary's order.
sorted_lists(us) == ascending(us, DOMAIN us)

\* What step_time leaves: the stats are recomputed when the loop raised nothing.
step_result(crs, unit_list, S) ==
    [exc |-> S.exc, market |-> S.market, units |-> S.units, ids |-> S.ids,
     log |-> S.log, drew |-> S.drew,
     careers |-> IF S.exc = "none" THEN compute_stats(crs, unit_list, S.objs) ELSE crs]

\* step_time(t, market, careers, units, rate, min_balance, max_age, eat_every,
\* spawn_every), for the unit_list the sort yields and the numbers rnd that
\* randint returns when the unit of a key spawns; drew is the set of the keys
\* whose turn reached spawn_unit's randint calls.
step_time(mkt, crs, keys, us, tbl, P, unit_list, rnd) ==
    step_result(crs, unit_list,
        run_units([market |-> mkt, units |-> us, same |-> DOMAIN us, objs |-> us,
                   ids |-> tbl, exc |-> "none", log |-> <<>>, drew |-> {}],
                  unit_list, 1, P, crs, keys, rnd))

-----------------------------------------------------------------------------
(* The snapshots the runs start from. *)

\* Ticks a run asks for (--steps of cli.py).
MaxSteps == 2
\* The loaded units' greatest busy.
MaxBusy == 1

\* The market section: food and babykits are required by parse_market.
Market0 ==
    [r \in {"food", "babykits"} |->
        IF r = "food"
        THEN [type |-> "linear", initial |-> 5, delta |-> 0, rate |-> 1]
        ELSE [type |-> "linear", initial |-> 3, delta |-> 0, rate |-> 1]]

NoRes == [r \in {} |-> 0]
Farm == [name |-> "farm", costs |-> NoRes, products |-> [r \in {"food"} |-> 1], time |-> 1]
Rest == [name |-> "rest", costs |-> NoRes, products |-> NoRes, time |-> 2]

CareerNames == {"farmer", "idler"}
ZeroStats == [total_balance |-> 0, total_age |-> 0, population |-> 0,
              avg_earnings |-> Frac(0, 1)]
\* The careers section: a farmer produces food; an idler's only operation
\* costs and produces nothing.
Careers0 ==
    [c \in CareerNames |->
        [ops |-> IF c = "farmer" THEN <<Farm>> ELSE <<Rest>>, stats |-> ZeroStats]]

\* The system section, for an iteration number and an interest rate; t_0 is
\* cmd_run's copy of the iteration number the run starts at, t the loop's t.
System0(t_0, rate) ==
    [t_0 |-> t_0, t |-> t_0, interest_rate |-> rate, min_balance |-> -10, max_age |-> 3,
     eat_every |-> 2, spawn_every |-> 2]
\* Iteration numbers a snapshot starts at: far from a report, and one before it.
StartTimes == {1, 99}
Rates == {0, 1}
Balances == {-8, 0, 4}

\* The states the units section gives a unit.
LoadedStates(sy) ==
    [age : 0..(sy.max_age - 1), busy : 0..MaxBusy, career : CareerNames,
     balance : Balances, eat_phase : 0..(sy.eat_every - 1),
     spawn_phase : 0..(sy.spawn_every - 1)]

\* A unit as parse_units leaves it: u_rec['name'] = u_name.
LoadedUnit(n, st) ==
    [age |-> st.age, busy |-> st.busy, career |-> st.career, balance |-> st.balance,
     name |-> n, eat_phase |-> st.eat_phase, spawn_phase |-> st.spawn_phase]

UnitNames == {"ann", "bob"}
\* The populations: any set of the names, each with any loaded state.
Populations(sy) ==
    UNION {{[n \in N |-> LoadedUnit(n, f[n])] : f \in [N -> LoadedStates(sy)]} :
              N \in SUBSET UnitNames}

\* random.randint(0, spawn_every - 1) and random.randint(0, eat_every - 1)
Draws(P) == [spawn_phase : 0..(P.spawn_every - 1), eat_phase : 0..(P.eat_every - 1)]

\* The keys whose turn calls randint in a tick over unit_list.  The numbers
\* drawn go into the new unit's phases only, and a new unit has no turn in the
\* tick it is born in, so which keys draw does not depend on what is drawn.
drawing(mkt, crs, keys, us, tbl, P, unit_list) ==
    step_time(mkt, crs, keys, us, tbl, P, unit_list, <<>>).drew

NoCall == [fn |-> "none"]

\* --report-interval, at its default.
ReportInterval == 100

\* Lines 111-113 of cmd_run: every ReportInterval-th t, the report asks the
\* price of each resource of the market; what it raises, if anything.
report(mkt, t) ==
    IF (t % ReportInterval) # 0 THEN "none"
    ELSE IF \A k \in DOMAIN mkt : ask_at(mkt, k, 1).exc = "none" THEN "none"
    ELSE CHOOSE e \in {ask_at(mkt, k, 1).exc : k \in DOMAIN mkt} : e # "none"

Init ==
    /\ \E t_0 \in StartTimes, rate \in Rates : sys = System0(t_0, rate)
    /\ market = Market0
    /\ careers = Careers0
    /\ keyorder = <<"farmer", "idler">>
    /\ units \in Populations(sys)
    /\ ids = parse_unit_ids(NoRes, NoRes)
    /\ exc = "none"
    /\ call = NoCall

\* The state once step_time has returned or raised, r being what it left.
Stepped(r, unit_list) ==
    /\ market' = r.market
    /\ careers' = r.careers
    /\ units' = r.units
    /\ ids' = r.ids
    /\ exc' = IF r.exc # "none" THEN r.exc ELSE report(r.market, sys.t)
    /\ call' = [fn |-> "step_time", start |-> units, unit_list |-> unit_list,
                log |-> r.log]

\* One iteration of the loop of cmd_run (cli.py lines 108-113), for --steps
\* MaxSteps.  An exception of step_time or of the report is not caught: it
\* ends the run, with whatever had been done by then.
StepTime ==
    /\ exc = "none"
    /\ sys.t < sys.t_0 + MaxSteps
    /\ \E unit_list \in sorted_lists(units) :
       \E rnd \in [drawing(market, careers, keyorder, units, ids, sys, unit_list)
                    -> Draws(sys)] :
          Stepped(step_time(market, careers, keyorder, units, ids, sys, unit_list, rnd),
                  unit_list)
    /\ sys' = [sys EXCEPT !.t = @ + 1]
    /\ UNCHANGED keyorder

Next == StepTime

Spec == Init /\ [][Next]_vars

-----------------------------------------------------------------------------
(* Claims about step_time, checked on the runs of Spec.  call.log holds, for  *)
(* each unit the last tick took from its list, the state before its turn      *)
(* (v[1]), after each part of the turn that completed, and at the turn's end. *)

StepCalled == call.fn = "step_time"
Turns == IF StepCalled THEN {call.log[i] : i \in DOMAIN call.log} ELSE {}

\* ask(r, 1) as the loop of ask_at prices it at the market m.
AskOne(m, r) == ask_loop(m[r], m[r].delta, 1)

EatDue(u) == (u.age % sys.eat_every) = u.eat_phase
SpawnDue(u) == (u.age % sys.spawn_every) = u.spawn_phase

\* C1: in a tick, a unit whose eat is due and for which balance - ask(food, 1)
\* < min_balance is removed from the population and that is all its turn does:
\* the turn ends with the population less that unit, and the market and the
\* sequencer as they were before the turn.
C1_StarvedUnitRemovedAndSkipped ==
    \A e \in Turns :
        (EatDue(e.v[1].u)
         /\ e.v[1].u.balance - AskOne(e.v[1].market, "food") < sys.min_balance)
        => /\ e.end.units = DictPop(e.v[1].units, e.key)
           /\ e.end.market = e.v[1].market
           /\ e.end.ids = e.v[1].ids

RECURSIVE PopSum(_, _, _)
\* the sum of field f over the units of `names` (f = "one" counts them)
PopSum(us, names, f) ==
    IF names = {} THEN 0
    ELSE LET n == CHOOSE x \in names : TRUE
         IN  (IF f = "balance" THEN us[n].balance
              ELSE IF f = "age" THEN us[n].age ELSE 1)
             + PopSum(us, names \ {n}, f)

Members(us, c) == {n \in DOMAIN us : us[n].career = c}

\* C2: after every step, each career's population, total_balance and
\* total_age are the count and the sums over the units of that career that are
\* in the population at the end of the tick.
C2_StatsAreOfSurvivors ==
    (StepCalled /\ exc = "none")
    => \A c \in DOMAIN careers :
          /\ careers[c].stats.population = PopSum(units, Members(units, c), "one")
          /\ careers[c].stats.total_balance = PopSum(units, Members(units, c), "balance")
          /\ careers[c].stats.total_age = PopSum(units, Members(units, c), "age")

\* C3: within one step exactly the units live at its start get a turn, each
\* one complete turn (eat, reproduce, act, age), and a unit whose balance at
\* the start was strictly less than another's has its turn first.
C3_EveryUnitOnceInBalanceOrder ==
    StepCalled
    => /\ Len(call.log) = Cardinality(DOMAIN call.start)
       /\ {e.key : e \in Turns} = DOMAIN call.start
       /\ \A e \in Turns : Len(e.v) = 5
       /\ \A i, j \in DOMAIN call.log :
             call.start[call.log[i].key].balance < call.start[call.log[j].key].balance
             => i < j

\* The state when the eat part of a turn was over: after it, or where it raised.
AfterEat(e) == IF Len(e.v) >= 2 THEN e.v[2] ELSE e.end

\* C6: a unit whose eat is due is removed if and only if balance - ask(food, 1)
\* < min_balance; when it is not removed, eating lowers its balance by exactly
\* ask(food, 1) as priced before the purchase and raises food's net_delta by 1.
C6_EatsOrStarvesAtTheFloor ==
    \A e \in Turns :
        EatDue(e.v[1].u)
        => LET price == AskOne(e.v[1].market, "food")
           IN  IF e.v[1].u.balance - price < sys.min_balance
               THEN e.key \notin DOMAIN AfterEat(e).units
               ELSE /\ e.key \in DOMAIN AfterEat(e).units
                    /\ AfterEat(e).u.balance = e.v[1].u.balance - price
                    /\ AfterEat(e).market["food"].delta = e.v[1].market["food"].delta + 1

\* C7: when a unit's reproduction is due and balance - ask(babykits, 1) <
\* min_balance, the reproduce part changes nothing (the unit, the population,
\* the market and the sequencer are as before it), and the unit goes on to act
\* and to age.
C7_UnaffordableKitIsSkipped ==
    \A e \in Turns :
        (Len(e.v) >= 2
         /\ SpawnDue(e.v[2].u)
         /\ e.v[2].u.balance - AskOne(e.v[2].market, "babykits") < sys.min_balance)
        => /\ Len(e.v) = 5
           /\ e.v[3] = e.v[2]
           /\ e.v[5].u.age = e.v[1].u.age + 1

\* C10: the loaded balances are all >= min_balance (Balances), and after any
\* number of ticks every unit in the population has balance >= min_balance.
C10_BalanceNeverBelowFloor ==
    exc = "none" => \A n \in DOMAIN units : units[n].balance >= sys.min_balance

\* C15: after a step, a career none of whose units is in the population has
\* avg_earnings 0, and the step raised no division error.
C15_EmptyCareerEarnsNothing ==
    StepCalled
    => /\ exc # "ZeroDivisionError"
       /\ exc = "none"
          => \A c \in DOMAIN careers :
                Members(units, c) = {} => FracEq(careers[c].stats.avg_earnings, Frac(0, 1))

\* C18: a unit whose busy is > 0 at its turn has, by the act part of the
\* turn, its busy lowered by exactly 1 and its balance and the market left
\* alone; a unit whose busy is 0 leaves the act part with busy 0 (the no-op)
\* or with the duration of an operation of its career; and no unit of the
\* population has a negative busy.
C18_BusyGatesAction ==
    /\ \A n \in DOMAIN units : units[n].busy >= 0
    /\ \A e \in Turns :
          /\ e.v[1].u.busy > 0
             => /\ Len(e.v) >= 4
                /\ e.v[4].u.busy = e.v[1].u.busy - 1
                /\ e.v[4].u.balance = e.v[3].u.balance
                /\ e.v[4].market = e.v[3].market
          /\ (e.v[1].u.busy = 0 /\ Len(e.v) >= 4)
             => \/ e.v[4].u.busy = 0
                \/ \E i \in DOMAIN careers[e.v[1].u.career].ops :
                      e.v[4].u.busy = careers[e.v[1].u.career].ops[i].time

\* C19: a unit that had a turn in the tick and is in the population after it
\* is one tick older than before; it is not in the population exactly when
\* that age is >= max_age (no unit of these runs starves); and every unit of
\* the population has age < max_age.
C19_AgesByOneAndDiesAtMaxAge ==
    /\ \A n \in DOMAIN units : units[n].age < sys.max_age
    /\ \A e \in Turns :
          /\ e.key \in DOMAIN units => units[e.key].age = e.v[1].u.age + 1
          /\ e.key \notin DOMAIN units <=> e.v[1].u.age + 1 >= sys.max_age

-----------------------------------------------------------------------------
(* choose_op as a function: SpecChoose draws its arguments and calls it once. *)

\* Operations that cost and produce nothing, of one and three ticks, and one
\* that consumes food.
Nap == [name |-> "nap", costs |-> NoRes, products |-> NoRes, time |-> 1]
Trek == [name |-> "trek", costs |-> NoRes, products |-> NoRes, time |-> 3]
Dine == [name |-> "dine", costs |-> [r \in {"food"} |-> 1], products |-> NoRes, time |-> 1]
OpCatalog == {Farm, Dine, Nap, Rest, Trek}

\* The longest list of candidate operations.
MaxOps == 2
OpLists == UNION {[1..n -> OpCatalog] : n \in 0..MaxOps}

\* Interest rates, balances, floors and time limits the policy is called with.
\* A rate of -4 pays a debtor for owing: with it a financed operation can beat
\* the no-op without selling anything.
ChooseRates == {-4, 0, 1}
ChooseBalances == {-8, -1, 0, 4}
ChooseFloors == {-10, 40}
ChooseTimes == {0, 2, 3}

ChooseArgs ==
    [ops : OpLists, rate : ChooseRates, balance : ChooseBalances,
     min_balance : ChooseFloors, max_time : ChooseTimes]

InitChoose ==
    /\ sys = System0(1, 0)
    /\ market = Market0
    /\ careers = Careers0
    /\ keyorder = <<"farmer", "idler">>
    /\ units = NoRes
    /\ ids = NoRes
    /\ exc = "none"
    /\ \E a \in ChooseArgs : call = [fn |-> "pending", args |-> a]

\* choose_op(market, ops, rate, balance, min_balance, max_time) returns or raises.
ChooseOp ==
    /\ call.fn = "pending"
    /\ call' = [fn |-> "choose_op", args |-> call.args,
                ret |-> choose_op(market, call.args.ops, call.args.rate,
                                  call.args.balance, call.args.min_balance,
                                  call.args.max_time)]
    /\ UNCHANGED <<sys, market, careers, units, ids, keyorder, exc>>

SpecChoose == InitChoose /\ [][ChooseOp]_vars

ChooseCalled == call.fn = "choose_op"
ChooseReturned == ChooseCalled /\ call.ret.exc = "none"
\* What price_op makes of a candidate at the call's market, rate and balance.
Priced(op) == price_op(market, op, call.args.rate, call.args.balance)
NoopRate == Frac(noop_profit(call.args.rate, call.args.balance), 1)

\* C4: an operation that choose_op returns is one of the candidates, and one
\* price_op prices with a resulting balance >= min_balance, of a duration
\* <= max_time.
C4_ChosenOpIsEligible ==
    (ChooseReturned /\ call.ret.val.op # None)
    => /\ \E i \in DOMAIN call.args.ops : call.args.ops[i] = call.ret.val.op
       /\ Priced(call.ret.val.op).exc = "none"
       /\ Priced(call.ret.val.op).val.low_balance >= call.args.min_balance
       /\ call.ret.val.op.time <= call.args.max_time

\* C4's case: choose_op returned the three-tick operation under the floor 40
\* and the time limit 3.  No balance of ChooseBalances clears that floor; the
\* resulting balance does where the rate -4 makes the financed cost negative.
C4_Witness ==
    /\ ChooseReturned
    /\ call.ret.val.op = Trek
    /\ call.args.min_balance = 40
    /\ call.args.max_time = 3

\* The candidates choose_op may return: priced, within the floor and the time.
EligibleAt(i) ==
    /\ Priced(call.args.ops[i]).exc = "none"
    /\ Priced(call.args.ops[i]).val.low_balance >= call.args.min_balance
    /\ call.args.ops[i].time <= call.args.max_time

\* C5: choose_op returns: the first of the eligible operations of greatest
\* profit_rate when that rate is strictly greater than the no-op's, with its
\* profit and rate, and otherwise the no-op with the no-op's profit.
C5_ReturnsFirstBestOrNoop ==
    ChooseCalled
    => /\ call.ret.exc = "none"
       /\ LET E == {i \in DOMAIN call.args.ops : EligibleAt(i)}
              B == {i \in E :
                      /\ FracGt(Priced(call.args.ops[i]).val.profit_rate, NoopRate)
                      /\ \A j \in E : ~FracGt(Priced(call.args.ops[j]).val.profit_rate,
                                              Priced(call.args.ops[i]).val.profit_rate)}
          IN  IF B = {}
              THEN /\ call.ret.val.op = None
                   /\ call.ret.val.profit = noop_profit(call.args.rate, call.args.balance)
              ELSE LET first == CHOOSE i \in B : \A j \in B : i <= j
                   IN  /\ call.ret.val.op = call.args.ops[first]
                       /\ call.ret.val.profit = Priced(call.args.ops[first]).val.profit
                       /\ FracEq(call.ret.val.rate,
                                 Priced(call.args.ops[first]).val.profit_rate)

RECURSIVE TotalQuote(_, _, _, _)
\* The sum, over the resources `todo` of an operation's costs (side "ask") or
\* products (side "bid"), of the price of the quantity at the market's delta.
TotalQuote(side, mkt, qtys, todo) ==
    IF todo = {} THEN 0
    ELSE LET r == CHOOSE x \in todo : TRUE
         IN  (IF side = "ask" THEN ask_loop(mkt[r], mkt[r].delta, qtys[r])
              ELSE bid_loop(mkt[r], mkt[r].delta, qtys[r]))
             + TotalQuote(side, mkt, qtys, todo \ {r})

\* The effective cost: a total cost above the balance is financed, the
\* shortfall compounding over the duration.
EffectiveCost(total_cost, rate, balance, time) ==
    IF total_cost > balance
    THEN balance + (total_cost - balance) * Pow(1 + rate, time)
    ELSE total_cost

\* C20: for every candidate of the call, price_op returns profit = the bids
\* for the products less the effective cost, profit_rate = profit / duration
\* and resulting balance = balance less the effective cost.
C20_PriceOpFinancesShortfall ==
    ChooseCalled
    => \A i \in DOMAIN call.args.ops :
          LET op == call.args.ops[i]
              cost == EffectiveCost(TotalQuote("ask", market, op.costs, DOMAIN op.costs),
                                    call.args.rate, call.args.balance, op.time)
              earnings == TotalQuote("bid", market, op.products, DOMAIN op.products)
          IN  /\ Priced(op).exc = "none"
              /\ Priced(op).val.profit = earnings - cost
              /\ FracEq(Priced(op).val.profit_rate, Frac(earnings - cost, op.time))
              /\ Priced(op).val.low_balance = call.args.balance - cost

-----------------------------------------------------------------------------
(* spawn_unit called on a loaded snapshot: SpecSpawn.  Inside step_time the   *)
(* call of line 132 follows ask_at(market, 'babykits'), which raises, so no   *)
(* tick of Spec reaches it; here it is called as the function it is, between  *)
(* ticks, on the population, the stats and the sequencer the run holds.       *)

\* The population at which the run calls spawn_unit no more.
MaxPop == 3

\* Loaded stats: the avg_earnings a snapshot gives a career.
LoadedEarnings == {Frac(0, 1), Frac(1, 2), Frac(-3, 1)}
SpawnCareers ==
    {[c \in CareerNames |->
         [ops |-> Careers0[c].ops,
          stats |-> [ZeroStats EXCEPT !.avg_earnings = f[c]]]] :
       f \in [CareerNames -> LoadedEarnings]}

\* Loaded populations: a farmer named as the sequencer names its first, and
\* an idler in debt; neither eats or spawns in its first tick.
SpawnPopulations ==
    {[n \in N |-> LoadedUnit(n, [age |-> 0, busy |-> 1,
                                 career |-> IF n = "bob" THEN "idler" ELSE "farmer",
                                 balance |-> IF n = "bob" THEN -8 ELSE 4,
                                 eat_phase |-> 1, spawn_phase |-> 1])] :
       N \in SUBSET {"farmer_0001", "bob"}}

\* The next_unit_ids section: absent, or the farmers' counter after one farmer.
IdTables == {NoRes, [c \in {"farmer"} |-> 1]}

InitSpawn ==
    /\ sys = System0(1, 1)
    /\ market = Market0
    /\ careers \in SpawnCareers
    /\ keyorder \in {<<"farmer", "idler">>, <<"idler", "farmer">>}
    /\ units \in SpawnPopulations
    /\ \E tbl \in IdTables : ids = parse_unit_ids(NoRes, tbl)
    /\ exc = "none"
    /\ call = NoCall

\* The state once spawn_unit has returned r.
Spawned(r) ==
    /\ units' = r.units
    /\ ids' = r.ids
    /\ call' = [fn |-> "spawn_unit", name |-> r.name, career |-> r.units[r.name].career,
                before |-> units, ids0 |-> ids,
                prev |-> IF call.fn = "spawn_unit" THEN call.career ELSE "none"]

\* spawn_unit(t, careers, units, parent, eat_every, spawn_every)
SpawnUnit ==
    /\ exc = "none"
    /\ Cardinality(DOMAIN units) < MaxPop
    /\ \E draw \in Draws(sys) :
          Spawned(spawn_unit(careers, keyorder, units, ids, draw))
    /\ UNCHANGED <<sys, market, careers, keyorder, exc>>

NextSpawn == SpawnUnit \/ StepTime

SpecSpawn == InitSpawn /\ [][NextSpawn]_vars

SpawnCalled == call.fn = "spawn_unit"

\* C8: a spawn adds exactly one unit, under a name no unit of the population
\* had, and leaves every unit the population had as it was.
C8_SpawnAddsUnderFreshName ==
    SpawnCalled
    => /\ call.name \notin DOMAIN call.before
       /\ DOMAIN units = (DOMAIN call.before) \cup {call.name}
       /\ \A n \in DOMAIN call.before : units[n] = call.before[n]

\* C9: a spawned unit's career is one whose avg_earnings, as the last tick
\* recomputed it or as loaded, no career's exceeds; spawns with no tick's
\* recomputation between them get the same career; the unit starts with age 0,
\* busy 0, balance 0 and phases within [0, eat_every) and [0, spawn_every).
C9_SpawnedIntoBestCareer ==
    SpawnCalled
    => /\ call.name \in DOMAIN units
       /\ units[call.name].career = call.career
       /\ \A c \in DOMAIN careers :
             ~FracGt(careers[c].stats.avg_earnings,
                     careers[call.career].stats.avg_earnings)
       /\ call.prev # "none" => call.prev = call.career
       /\ units[call.name].age = 0
       /\ units[call.name].busy = 0
       /\ units[call.name].balance = 0
       /\ units[call.name].name = call.name
       /\ units[call.name].eat_phase \in 0..(sys.eat_every - 1)
       /\ units[call.name].spawn_phase \in 0..(sys.spawn_every - 1)

\* C9's case: a second unit is spawned with no tick since the first, where the
\* careers' avg_earnings differ and the dictionary lists the lesser first.
C9_Witness ==
    /\ SpawnCalled
    /\ call.prev # "none"
    /\ \E c \in DOMAIN careers :
          FracGt(careers[call.career].stats.avg_earnings, careers[c].stats.avg_earnings)
    /\ keyorder[1] # call.career

-----------------------------------------------------------------------------
(* The market's four routines called on a loaded market: SpecMarket.  Each   *)
(* call is one action; call holds its arguments, the market before it and    *)
(* what it returned or raised.  An exception ends the call, not the caller.  *)

\* The greatest quantity a call is made with, and the greatest distance of a
\* delta from 0.
MaxQty == 2
MaxDelta == 2

\* Price models of food: the linear one of Market0, a linear one whose price
\* falls with delta (and is clamped at 0), and an exponential one.
FoodModels ==
    {[type |-> "linear", initial |-> 5, rate |-> 1],
     [type |-> "linear", initial |-> 1, rate |-> -1],
     [type |-> "exponential", initial |-> 2, rate |-> 2]}

\* The markets parse_market accepts: food of a model and at a delta.
Markets ==
    {[r \in {"food", "babykits"} |->
         IF r = "food"
         THEN [type |-> m.type, initial |-> m.initial, delta |-> d, rate |-> m.rate]
         ELSE Market0[r]] :
       m \in FoodModels, d \in (-MaxDelta)..MaxDelta}

\* The resources a call names (gold is in no market) and its quantities.
CallResources == {"food", "babykits", "gold"}
CallQtys == (-1)..MaxQty

InitMarket ==
    /\ sys = System0(1, 0)
    /\ market \in Markets
    /\ careers = Careers0
    /\ keyorder = <<"farmer", "idler">>
    /\ units = NoRes
    /\ ids = NoRes
    /\ exc = "none"
    /\ call = NoCall

\* What a buy or a sell keeps of the call before it, when that was a buy or
\* a sell.
Brief(c) == IF c.fn \notin {"buy", "sell"} THEN NoCall
            ELSE [fn |-> c.fn, resource |-> c.resource, qty |-> c.qty,
                  before |-> c.before, exc |-> c.exc]

\* Every delta within MaxDelta of 0.
InRange(mkt) == \A r \in DOMAIN mkt : mkt[r].delta \in (-MaxDelta)..MaxDelta

\* The state once buy or sell has returned r (the market) or raised.
Traded(fn, resource, qty, r) ==
    /\ r.exc = "none" => InRange(r.val)
    /\ market' = IF r.exc = "none" THEN r.val ELSE market
    /\ call' = [fn |-> fn, resource |-> resource, qty |-> qty, before |-> market,
                exc |-> r.exc, val |-> 0, prev |-> Brief(call)]
    /\ UNCHANGED <<sys, careers, units, ids, keyorder, exc>>

\* The state once ask_at or bid_at has returned r (a price) or raised.
Quoted(fn, resource, qty, r) ==
    /\ call' = [fn |-> fn, resource |-> resource, qty |-> qty, before |-> market,
                exc |-> r.exc, val |-> r.val]
    /\ UNCHANGED <<sys, market, careers, units, ids, keyorder, exc>>

Buy ==
    /\ exc = "none"
    /\ \E r \in CallResources, q \in CallQtys :
          Traded("buy", r, q, buy(market, r, q))
Sell ==
    /\ exc = "none"
    /\ \E r \in CallResources, q \in CallQtys :
          Traded("sell", r, q, sell(market, r, q))
AskAt ==
    /\ exc = "none"
    /\ \E r \in CallResources, q \in CallQtys :
          Quoted("ask_at", r, q, ask_at(market, r, q))
BidAt ==
    /\ exc = "none"
    /\ \E r \in CallResources, q \in CallQtys :
          Quoted("bid_at", r, q, bid_at(market, r, q))

NextMarket == Buy \/ Sell \/ AskAt \/ BidAt

SpecMarket == InitMarket /\ [][NextMarket]_vars

\* The last call was fn and raised nothing.
Did(fn) == call.fn = fn /\ call.exc = "none"

\* Every resource but r is in m as it is in n.
OthersSame(m, n, r) ==
    /\ DOMAIN m = DOMAIN n
    /\ \A x \in DOMAIN m : x # r => m[x] = n[x]

\* C11: buy adds exactly q to the resource's delta and sell subtracts exactly
\* q, every other resource staying as it was; buy(r, q) then sell(r, q), and
\* sell(r, q) then buy(r, q), leave the market as it was before the two.
C11_BuySellRoundTrip ==
    /\ (call.fn \in {"buy", "sell"} /\ call.resource \in DOMAIN call.before /\ call.qty >= 0)
       => /\ call.exc = "none"
          /\ OthersSame(market, call.before, call.resource)
          /\ market[call.resource].delta =
                call.before[call.resource].delta
                + (IF call.fn = "buy" THEN call.qty ELSE -call.qty)
          /\ market[call.resource] =
                [call.before[call.resource] EXCEPT !.delta = market[call.resource].delta]
    /\ (/\ call.fn \in {"buy", "sell"}
        /\ call.exc = "none"
        /\ call.prev.fn \in {"buy", "sell"}
        /\ call.prev.fn # call.fn
        /\ call.prev.exc = "none"
        /\ call.prev.resource = call.resource
        /\ call.prev.qty = call.qty)
       => market = call.prev.before

\* C11's case: a sell of two units right after a buy of two of the same
\* resource.
C11_Witness ==
    /\ Did("sell")
    /\ call.qty = 2
    /\ call.prev.fn = "buy"
    /\ call.prev.exc = "none"
    /\ call.prev.resource = call.resource
    /\ call.prev.qty = 2

\* The last call was ask_at or bid_at, with arguments that pass its asserts.
QuoteCalled ==
    /\ call.fn \in {"ask_at", "bid_at"}
    /\ call.resource \in DOMAIN call.before
    /\ call.qty >= 0

\* C12: on an exponential resource at delta d, ask_at for a + b units returns
\* what ask_at for a units at d and ask_at for b units after buy(r, a) return
\* together, for all a, b >= 0.
C12_ExponentialAskComposes ==
    (QuoteCalled /\ call.fn = "ask_at" /\ call.before[call.resource].type = "exponential")
    => /\ call.exc = "none"
       /\ \A a \in 0..call.qty :
             /\ ask_at(call.before, call.resource, a).exc = "none"
             /\ ask_at(buy(call.before, call.resource, a).val, call.resource,
                       call.qty - a).exc = "none"
             /\ call.val = ask_at(call.before, call.resource, a).val
                           + ask_at(buy(call.before, call.resource, a).val, call.resource,
                                    call.qty - a).val

\* C13: on a linear resource, ask_at for one unit returns max(0, initial +
\* delta * rate) at the delta the buys so far have left, and ask_at and bid_at
\* return no negative price for any delta and quantity.
C13_LinearAskFollowsBuys ==
    (QuoteCalled /\ call.before[call.resource].type = "linear")
    => /\ call.exc = "none"
       /\ call.val >= 0
       /\ (call.fn = "ask_at" /\ call.qty = 1)
          => call.val = Max2(0, call.before[call.resource].initial
                                + call.before[call.resource].delta
                                  * call.before[call.resource].rate)

\* C14: ask_at and bid_at for no unit of a resource of the market return 0
\* and leave the market as it was.
C14_ZeroQuantityCostsNothing ==
    (QuoteCalled /\ call.qty = 0)
    => /\ call.exc = "none"
       /\ call.val = 0
       /\ market = call.before

\* Every resource's delta is in m what it is in n.
SameDeltas(m, n) ==
    /\ DOMAIN m = DOMAIN n
    /\ \A x \in DOMAIN m : m[x].delta = n[x].delta

\* C22: ask_at, bid_at, buy and sell each raise when the resource is not in
\* the market or the quantity is negative; a call that raised leaves every
\* resource's delta as it was, and so does every call of ask_at and bid_at.
C22_BadCallRaisesAndKeepsDeltas ==
    call.fn \in {"ask_at", "bid_at", "buy", "sell"}
    => /\ (call.resource \notin DOMAIN call.before \/ call.qty < 0) => call.exc # "none"
       /\ call.exc # "none" => SameDeltas(market, call.before)
       /\ call.fn \in {"ask_at", "bid_at"} => SameDeltas(market, call.before)

\* C22's case: a sell of a negative quantity of food, raising, on a market
\* that a buy of two units has moved.
C22_Witness ==
    /\ call.fn = "sell"
    /\ call.resource = "food"
    /\ call.qty < 0
    /\ call.exc = "AssertionError"
    /\ call.prev.fn = "buy"
    /\ call.prev.exc = "none"
    /\ call.prev.qty = 2
    /\ market = call.before

-----------------------------------------------------------------------------
(* perform_op called on a market and a unit: SpecPerform.  In a tick it is    *)
(* handed what choose_op returned (unit.py line 143); here it is called as    *)
(* the function it is, with None or an operation of the careers section, on   *)
(* resources of the market and with quantities that price_op's asks and bids  *)
(* accept.                                                                     *)

\* Costs and products: quantities 0..MaxQty of any of the market's resources.
Quantities == UNION {[R -> 0..MaxQty] : R \in SUBSET {"food", "babykits"}}
PerformTimes == {1, 3}
PerformOps ==
    {None} \cup {[name |-> "work", costs |-> c, products |-> p, time |-> d] :
                    c \in Quantities, p \in Quantities, d \in PerformTimes}
\* Precomputed profits: a loss and a gain.
Profits == {-3, 4}

\* The unit: in debt, idle or busy.
PerformUnits ==
    {[n \in {"ann"} |->
         LoadedUnit(n, [age |-> 1, busy |-> b, career |-> "farmer", balance |-> -8,
                        eat_phase |-> 0, spawn_phase |-> 0])] : b \in 0..MaxBusy}

InitPerform ==
    /\ sys = System0(1, 0)
    /\ market \in Markets
    /\ careers = Careers0
    /\ keyorder = <<"farmer", "idler">>
    /\ units \in PerformUnits
    /\ ids = NoRes
    /\ exc = "none"
    /\ \E op \in PerformOps, profit \in Profits :
          call = [fn |-> "pending", args |-> [name |-> "ann", op |-> op, profit |-> profit]]

\* The state once perform_op has returned or raised: r holds the market and
\* the unit state as the call left them.
Performed(r) ==
    /\ market' = r.market
    /\ units' = [units EXCEPT ![call.args.name] = r.unit]
    /\ call' = [fn |-> "perform_op", args |-> call.args, market0 |-> market,
                unit0 |-> units[call.args.name], exc |-> r.exc]

\* perform_op(market, unit_state, op, profit)
PerformOp ==
    /\ call.fn = "pending"
    /\ Performed(perform_op(market, units[call.args.name], call.args.op, call.args.profit))
    /\ UNCHANGED <<sys, careers, ids, keyorder, exc>>

SpecPerform == InitPerform /\ [][PerformOp]_vars

PerformCalled == call.fn = "perform_op"
\* The quantity a costs or products mapping gives resource r: 0 if it names it not.
QtyOf(d, r) == IF r \in DOMAIN d THEN d[r] ELSE 0

\* C21: perform_op raises nothing and adds exactly the precomputed profit to
\* the unit's balance; for an operation each resource's delta is what it was,
\* plus the quantity the costs give it, less the quantity the products give
\* it (so unchanged for a resource in neither), nothing else of the market
\* changes and busy grows by the operation's time; for None the market and
\* busy are as they were.
C21_PerformAppliesOutcome ==
    PerformCalled
    => LET op == call.args.op
           u == units[call.args.name]
       IN  /\ call.exc = "none"
           /\ u.balance = call.unit0.balance + call.args.profit
           /\ DOMAIN market = DOMAIN call.market0
           /\ op = None => (market = call.market0 /\ u.busy = call.unit0.busy)
           /\ op # None
              => /\ \A r \in DOMAIN market :
                       market[r] = [call.market0[r] EXCEPT
                                       !.delta = @ + QtyOf(op.costs, r) - QtyOf(op.products, r)]
                 /\ u.busy = call.unit0.busy + op.time

\* C21's case: an operation that costs babykits, produces food and names food
\* on both sides with different quantities, performed at a gain.
C21_Witness ==
    /\ PerformCalled
    /\ call.exc = "none"
    /\ call.args.op # None
    /\ call.args.profit > 0
    /\ DOMAIN call.args.op.costs = {"food", "babykits"}
    /\ DOMAIN call.args.op.products = {"food"}
    /\ call.args.op.costs["food"] = 1
    /\ call.args.op.costs["babykits"] = 2
    /\ call.args.op.products["food"] = 2

-----------------------------------------------------------------------------
(* One farmer on a linear food market: SpecFarmer.  Amounts of money are in  *)
(* hundredths, so that the food's initial 1.0 and rate 0.01 are 100 and 1.   *)

MarketFarmer ==
    [r \in {"food", "babykits"} |->
        IF r = "food"
        THEN [type |-> "linear", initial |-> 100, delta |-> 0, rate |-> 1]
        ELSE [type |-> "linear", initial |-> 300, delta |-> 0, rate |-> 1]]

\* One career, whose only operation has no costs and produces 1 food.
CareersFarmer == [c \in {"farmer"} |-> [ops |-> <<Farm>>, stats |-> ZeroStats]]

\* The system sections: floors of -100.0 and -10.0, two greatest ages.
SystemsFarmer ==
    {[System0(t_0, rate) EXCEPT !.min_balance = floor, !.max_age = oldest] :
        t_0 \in StartTimes, rate \in Rates, floor \in {-10000, -1000}, oldest \in {3, 4}}

\* A single unit with balance 0 and busy 0 whose eat is due at its age.
PopulationsFarmer(sy) ==
    {[n \in {"ann"} |->
         LoadedUnit(n, [age |-> a, busy |-> 0, career |-> "farmer", balance |-> 0,
                        eat_phase |-> a % sy.eat_every, spawn_phase |-> sp])] :
       a \in 0..1, sp \in 0..(sy.spawn_every - 1)}

InitFarmer ==
    /\ sys \in SystemsFarmer
    /\ market = MarketFarmer
    /\ careers = CareersFarmer
    /\ keyorder = <<"farmer">>
    /\ units \in PopulationsFarmer(sys)
    /\ ids = parse_unit_ids(NoRes, NoRes)
    /\ exc = "none"
    /\ call = NoCall

SpecFarmer == InitFarmer /\ [][StepTime]_vars

\* C16: after the one step of a farmer with balance 0 and busy 0 whose eat is
\* due (and whose spawn is not), the step has raised nothing, the unit is in
\* the population, its balance is the bid for the food it sold, at the delta
\* its meal left, less the ask for the food it ate, and food's delta is as it
\* was.
C16_FarmerEatsAndSells ==
    StepCalled
    => \A e \in Turns :
          ~SpawnDue(e.v[1].u)
          => /\ exc = "none"
             /\ e.key \in DOMAIN units
             /\ units[e.key].balance =
                   e.v[1].u.balance
                   + bid_loop(e.v[1].market["food"], e.v[1].market["food"].delta + 1, 1)
                   - AskOne(e.v[1].market, "food")
             /\ market["food"].delta = e.v[1].market["food"].delta

====
